---- MODULE Spec2Model ----
(***************************************************************************)
(* Model of the smart-glasses backend's date-expression resolver           *)
(* (main.py, parse_natural_language_date) and of its scene index and       *)
(* daily recap (scene_service.py, SceneService).                           *)
(*                                                                         *)
(* Strings are sequences of one-character strings, so that lower(),        *)
(* strip(), `in', startswith(), re.search(), int() and strftime() are      *)
(* computed character by character as the code computes them.              *)
(***************************************************************************)
EXTENDS Integers, Sequences, FiniteSets, TLC

VARIABLES
    query,      \* resolver: the query text (request.query)
    now,        \* the wall clock's calendar date, [y, m, d] (datetime.now())
    pc,         \* "idle" before the call of the operation, "done" after it
    result,     \* resolver: what parse_natural_language_date did; saves: the
                \* dict the save returned
    fuzzy,      \* resolver: what parser.parse did, "notcalled" if not called
    listing,    \* scenes: os.listdir(scenes_dir), in the order the OS gives
    date,       \* scenes: the date argument of the call
    op,         \* scenes: the operation that was called
    scenes,     \* scenes: the list get_daily_scenes returned
    recap,      \* scenes: what get_daily_recap returned
    unreadable, \* scenes: the paths Image.open failed on
    response,   \* scenes: what generate_content did, if it was called
    sent,       \* scenes: what generate_content was called with
    parts,      \* sanitizer: the pieces the input text is made of
    md,         \* sanitizer: the argument of strip_markdown (Optional[str])
    clean,      \* sanitizer: what strip_markdown returned
    loads,      \* recap, step by step: whether each Image.open so far succeeded
    calls,      \* recap, step by step: the number of calls of generate_content
    supplied,   \* requests: the date a request supplies (Optional[str])
    keyedOn,    \* requests: the clock date when the date key was computed
    disk,       \* saves: the files of scenes_dir, filename to image saved
    saves,      \* saves: the number of saves that returned success
    clock       \* the wall clock's time of day, in seconds since midnight

runVars == <<loads, calls>>
flowVars == <<supplied, keyedOn>>
saveVars == <<disk, saves>>

vars == <<query, now, pc, result, fuzzy, listing, date, op, scenes, recap,
          unreadable, response, sent, parts, md, clean, runVars, flowVars,
          saveVars, clock>>

\* Optional[str]: None, or a string
None == [some |-> FALSE, str |-> <<>>]
Some(s) == [some |-> TRUE, str |-> s]

\* no date
NoDate == [y |-> 0, m |-> 0, d |-> 0]

\* a scenes directory with no file
NoFiles == [f \in {} |-> 0]

\* the variables of the step-by-step recap, of the requests and of the
\* saves, for the calls that do not use them
NoRun == loads = <<>> /\ calls = 0
NoFlow == supplied = None /\ keyedOn = NoDate
NoSaves == disk = NoFiles /\ saves = 0

----------------------------------------------------------------------------
(* Characters and strings                                                  *)

UpperCase == <<"A","B","C","D","E","F","G","H","I","J","K","L","M","N","O","P","Q","R","S","T","U","V","W","X","Y","Z">>
LowerCase == <<"a","b","c","d","e","f","g","h","i","j","k","l","m","n","o","p","q","r","s","t","u","v","w","x","y","z">>
Digits == <<"0","1","2","3","4","5","6","7","8","9">>

\* str.isspace for the characters of the model
Whitespace == {" ", "\t", "\n"}

DigitSet == {Digits[i] : i \in 1..Len(Digits)}

UpperSet == {UpperCase[i] : i \in 1..Len(UpperCase)}

\* the value of each digit character
DigitValue == [c \in DigitSet |-> (CHOOSE i \in 1..Len(Digits) : Digits[i] = c) - 1]

\* str.lower of each upper-case letter
ToLower == [c \in UpperSet |-> LowerCase[CHOOSE i \in 1..Len(UpperCase) : UpperCase[i] = c]]

\* str.lower of one character
LowerChar(c) == IF c \in UpperSet THEN ToLower[c] ELSE c

\* str.lower
lower(s) == [i \in 1..Len(s) |-> LowerChar(s[i])]

\* str.strip: leading and trailing whitespace removed
strip(s) ==
    IF \A i \in 1..Len(s) : s[i] \in Whitespace
    THEN <<>>
    ELSE LET first == CHOOSE i \in 1..Len(s) :
                          /\ s[i] \notin Whitespace
                          /\ \A j \in 1..(i - 1) : s[j] \in Whitespace
             last == CHOOSE i \in 1..Len(s) :
                          /\ s[i] \notin Whitespace
                          /\ \A j \in (i + 1)..Len(s) : s[j] \in Whitespace
         IN SubSeq(s, first, last)

\* whether p occurs in s at position i
OccursAt(s, p, i) ==
    /\ i + Len(p) - 1 <= Len(s)
    /\ \A k \in 1..Len(p) : s[i + k - 1] = p[k]

\* Python's `p in s' on strings
Contains(s, p) == \E i \in 1..(Len(s) + 1) : OccursAt(s, p, i)

\* str.startswith
startswith(s, p) == OccursAt(s, p, 1)

\* the end of the longest run of characters of class C that starts at i
\* (i - 1 when s[i] is not in C)
RECURSIVE RunEnd(_, _, _)
RunEnd(s, i, C) ==
    IF i <= Len(s) /\ s[i] \in C THEN RunEnd(s, i + 1, C) ELSE i - 1

\* int() of a string of digits
RECURSIVE int(_)
int(ds) ==
    IF ds = <<>> THEN 0
    ELSE 10 * int(SubSeq(ds, 1, Len(ds) - 1)) + DigitValue[ds[Len(ds)]]

\* a number written with at least `width' digits, zero-padded
RECURSIVE Pad(_, _)
Pad(n, width) ==
    IF n < 10 /\ width <= 1 THEN <<Digits[n + 1]>>
    ELSE Pad(n \div 10, width - 1) \o <<Digits[(n % 10) + 1]>>

----------------------------------------------------------------------------
(* Calendar arithmetic of datetime, timedelta and relativedelta            *)

IsLeap(y) == y % 4 = 0 /\ (y % 100 # 0 \/ y % 400 = 0)

DaysInMonth(y, m) ==
    IF m = 2 THEN (IF IsLeap(y) THEN 29 ELSE 28)
    ELSE IF m \in {4, 6, 9, 11} THEN 30 ELSE 31

DaysBeforeYear(y) ==
    (y - 1) * 365 + ((y - 1) \div 4) - ((y - 1) \div 100) + ((y - 1) \div 400)

DaysBeforeMonth(y, m) ==
    <<0, 31, 59, 90, 120, 151, 181, 212, 243, 273, 304, 334>>[m]
        + (IF m > 2 /\ IsLeap(y) THEN 1 ELSE 0)

\* date.toordinal: 1 is 0001-01-01
toordinal(d) == DaysBeforeYear(d.y) + DaysBeforeMonth(d.y, d.m) + d.d

\* date.fromordinal, for 1 <= n
fromordinal(n) ==
    LET n0 == n - 1
        n400 == n0 \div 146097
        r400 == n0 % 146097
        n100 == r400 \div 36524
        r100 == r400 % 36524
        n4 == r100 \div 1461
        r4 == r100 % 1461
        n1 == r4 \div 365
        r1 == r4 % 365
        year == n400 * 400 + 1 + n100 * 100 + n4 * 4 + n1
    IN IF n1 = 4 \/ n100 = 4
       THEN [y |-> year - 1, m |-> 12, d |-> 31]
       ELSE LET month == CHOOSE k \in 1..12 :
                             /\ DaysBeforeMonth(year, k) <= r1
                             /\ r1 < DaysBeforeMonth(year, k) + DaysInMonth(year, k)
            IN [y |-> year, m |-> month, d |-> r1 - DaysBeforeMonth(year, month) + 1]

\* date.weekday: Monday is 0
weekday(d) == (toordinal(d) + 6) % 7

\* the largest ordinal a datetime holds (9999-12-31)
MaxOrdinal == toordinal([y |-> 9999, m |-> 12, d |-> 31])

Raise == [kind |-> "raise", date |-> [y |-> 0, m |-> 0, d |-> 0]]
Value(d) == [kind |-> "ok", date |-> d]

\* dt + timedelta(days=n): OverflowError when n is no timedelta or the
\* date leaves 0001-01-01 .. 9999-12-31
PlusDays(dt, n) ==
    IF n > 999999999 \/ n < -999999999 THEN Raise
    ELSE IF toordinal(dt) + n < 1 \/ toordinal(dt) + n > MaxOrdinal THEN Raise
    ELSE Value(fromordinal(toordinal(dt) + n))

\* dt - relativedelta(years=years, months=months): the month count is
\* normalised to years and at most 11 months, the day is clamped to the
\* length of the target month, and replace() raises outside years 1..9999
MinusRelative(dt, years, months) ==
    LET yrs == years + (months \div 12)
        mos == months % 12
        y0 == dt.y - yrs
        m0 == dt.m - mos
        year == IF m0 < 1 THEN y0 - 1 ELSE y0
        month == IF m0 < 1 THEN m0 + 12 ELSE m0
        day == IF DaysInMonth(year, month) < dt.d THEN DaysInMonth(year, month) ELSE dt.d
    IN IF year < 1 \/ year > 9999 THEN Raise
       ELSE Value([y |-> year, m |-> month, d |-> day])

\* strftime("%Y%m%d"): the C library pads the year to 4 digits or not
\* (glibc does not), which shows for years below 1000
strftime(d, padYear) ==
    (IF padYear THEN Pad(d.y, 4) ELSE Pad(d.y, 1)) \o Pad(d.m, 2) \o Pad(d.d, 2)

----------------------------------------------------------------------------
(* parse_natural_language_date (main.py)                                   *)

\* what parser.parse(query, fuzzy=True) can do: return a date or raise
ParsedDates ==
    { [y |-> 2025, m |-> 6, d |-> 15], [y |-> 2024, m |-> 6, d |-> 6] }

FuzzyOutcomes == {Raise} \cup {Value(d) : d \in ParsedDates}

TodayPhrases ==
    { <<"t","o","d","a","y">>, <<"m","y"," ","d","a","y"," ","s","o"," ","f","a","r">>, <<"t","h","i","s"," ","d","a","y">>, <<"c","u","r","r","e","n","t"," ","d","a","y">> }

YesterdayPhrases == { <<"y","e","s","t","e","r","d","a","y">>, <<"y","e","s","t","e","r","d","a","y","s">> }

TomorrowPhrases == { <<"t","o","m","o","r","r","o","w">>, <<"t","o","m","o","r","r","o","w","s">> }

\* the weekdays dict, in its order: the name at index i has number i - 1
weekdays ==
    << <<"m","o","n","d","a","y">>, <<"t","u","e","s","d","a","y">>, <<"w","e","d","n","e","s","d","a","y">>, <<"t","h","u","r","s","d","a","y">>,
       <<"f","r","i","d","a","y">>, <<"s","a","t","u","r","d","a","y">>, <<"s","u","n","d","a","y">> >>

\* any(phrase in s for phrase in phrases)
ContainsAny(s, phrases) == \E p \in phrases : Contains(s, p)

\* whether (\d+)\s+<unit>s?\s+ago matches s from position i on
MatchAgoAt(s, i, unit) ==
    LET dEnd == RunEnd(s, i, DigitSet)
        wEnd == RunEnd(s, dEnd + 1, Whitespace)
        u == wEnd + 1
        v == u + Len(unit)
        AgoAt(j) == LET w2 == RunEnd(s, j, Whitespace)
                   IN w2 >= j /\ OccursAt(s, <<"a","g","o">>, w2 + 1)
    IN /\ dEnd >= i
       /\ wEnd >= dEnd + 1
       /\ OccursAt(s, unit, u)
       /\ \/ (v <= Len(s) /\ s[v] = "s" /\ AgoAt(v + 1))
          \/ AgoAt(v)

\* the first position from i on where the pattern matches, 0 when none
RECURSIVE SearchAgo(_, _, _)
SearchAgo(s, i, unit) ==
    IF i > Len(s) THEN 0
    ELSE IF MatchAgoAt(s, i, unit) THEN i
    ELSE SearchAgo(s, i + 1, unit)

\* re.search(r'(\d+)\s+<unit>s?\s+ago', s): group(1) of the leftmost
\* match, <<>> when there is none
AgoMatch(s, unit) ==
    LET i == SearchAgo(s, 1, unit)
    IN IF i = 0 THEN <<>> ELSE SubSeq(s, i, RunEnd(s, i, DigitSet))

\* f"last {day_name}" in s, for the first day_name of weekdays that is
LastWeekdayIn(s) ==
    LET Has(i) == Contains(s, <<"l","a","s","t"," ">> \o weekdays[i])
    IN IF \E i \in 1..7 : Has(i)
       THEN CHOOSE i \in 1..7 : Has(i) /\ \A j \in 1..(i - 1) : ~Has(j)
       ELSE 0

\* LastWeekday without `if days_since == 0: days_since = 7'
LastWeekday_NoWeekBack(today, day_num) ==
    PlusDays(today, 0 - ((weekday(today) - day_num) % 7))

\* today - timedelta(days=days_since) of the weekday loop
LastWeekday(today, day_num) ==
    LET since == (weekday(today) - day_num) % 7
        days_since == IF since = 0 THEN 7 ELSE since
    IN PlusDays(today, 0 - days_since)

NoMatch == [kind |-> "nomatch", date |-> [y |-> 0, m |-> 0, d |-> 0]]

\* parser.parse was not called
NotCalled == [kind |-> "notcalled", date |-> [y |-> 0, m |-> 0, d |-> 0]]

\* HandleRelativeDates with the weekday loop moved above `yesterday'
HandleRelativeDates_WeekdayFirst(query_lower, today) ==
    LET days_ago_match == AgoMatch(query_lower, <<"d","a","y">>)
        weeks_ago_match == AgoMatch(query_lower, <<"w","e","e","k">>)
        months_ago_match == AgoMatch(query_lower, <<"m","o","n","t","h">>)
        years_ago_match == AgoMatch(query_lower, <<"y","e","a","r">>)
        day_index == LastWeekdayIn(query_lower)
    IN IF ContainsAny(query_lower, TodayPhrases) THEN Value(today)
       ELSE IF day_index # 0 THEN LastWeekday(today, day_index - 1)
       ELSE IF ContainsAny(query_lower, YesterdayPhrases) THEN PlusDays(today, -1)
       ELSE IF ContainsAny(query_lower, TomorrowPhrases) THEN PlusDays(today, 1)
       ELSE IF days_ago_match # <<>>
            THEN PlusDays(today, 0 - int(days_ago_match))
       ELSE IF weeks_ago_match # <<>>
            THEN PlusDays(today, 0 - 7 * int(weeks_ago_match))
       ELSE IF months_ago_match # <<>>
            THEN MinusRelative(today, 0, int(months_ago_match))
       ELSE IF years_ago_match # <<>>
            THEN MinusRelative(today, int(years_ago_match), 0)
       ELSE IF Contains(query_lower, <<"l","a","s","t"," ","w","e","e","k">>) THEN PlusDays(today, -7)
       ELSE IF Contains(query_lower, <<"l","a","s","t"," ","m","o","n","t","h">>) THEN MinusRelative(today, 0, 1)
       ELSE IF Contains(query_lower, <<"l","a","s","t"," ","y","e","a","r">>) THEN MinusRelative(today, 1, 0)
       ELSE NoMatch

\* HandleRelativeDates with `yesterday' tested before `today'
HandleRelativeDates_YesterdayFirst(query_lower, today) ==
    LET days_ago_match == AgoMatch(query_lower, <<"d","a","y">>)
        weeks_ago_match == AgoMatch(query_lower, <<"w","e","e","k">>)
        months_ago_match == AgoMatch(query_lower, <<"m","o","n","t","h">>)
        years_ago_match == AgoMatch(query_lower, <<"y","e","a","r">>)
        day_index == LastWeekdayIn(query_lower)
    IN IF ContainsAny(query_lower, YesterdayPhrases) THEN PlusDays(today, -1)
       ELSE IF ContainsAny(query_lower, TodayPhrases) THEN Value(today)
       ELSE IF ContainsAny(query_lower, TomorrowPhrases) THEN PlusDays(today, 1)
       ELSE IF days_ago_match # <<>>
            THEN PlusDays(today, 0 - int(days_ago_match))
       ELSE IF weeks_ago_match # <<>>
            THEN PlusDays(today, 0 - 7 * int(weeks_ago_match))
       ELSE IF months_ago_match # <<>>
            THEN MinusRelative(today, 0, int(months_ago_match))
       ELSE IF years_ago_match # <<>>
            THEN MinusRelative(today, int(years_ago_match), 0)
       ELSE IF Contains(query_lower, <<"l","a","s","t"," ","w","e","e","k">>) THEN PlusDays(today, -7)
       ELSE IF Contains(query_lower, <<"l","a","s","t"," ","m","o","n","t","h">>) THEN MinusRelative(today, 0, 1)
       ELSE IF Contains(query_lower, <<"l","a","s","t"," ","y","e","a","r">>) THEN MinusRelative(today, 1, 0)
       ELSE IF day_index # 0 THEN LastWeekday(today, day_index - 1)
       ELSE NoMatch

\* the rules for relative dates, in their order: the target_date of the
\* first `if' that matches (or the exception its arithmetic raises), and
\* NoMatch when the code falls through to the absolute dates
HandleRelativeDates(query_lower, today) ==
    LET days_ago_match == AgoMatch(query_lower, <<"d","a","y">>)
        weeks_ago_match == AgoMatch(query_lower, <<"w","e","e","k">>)
        months_ago_match == AgoMatch(query_lower, <<"m","o","n","t","h">>)
        years_ago_match == AgoMatch(query_lower, <<"y","e","a","r">>)
        day_index == LastWeekdayIn(query_lower)
    IN IF ContainsAny(query_lower, TodayPhrases) THEN Value(today)
       ELSE IF ContainsAny(query_lower, YesterdayPhrases) THEN PlusDays(today, -1)
       ELSE IF ContainsAny(query_lower, TomorrowPhrases) THEN PlusDays(today, 1)
       ELSE IF days_ago_match # <<>>
            THEN PlusDays(today, 0 - int(days_ago_match))
       ELSE IF weeks_ago_match # <<>>
            THEN PlusDays(today, 0 - 7 * int(weeks_ago_match))
       ELSE IF months_ago_match # <<>>
            THEN MinusRelative(today, 0, int(months_ago_match))
       ELSE IF years_ago_match # <<>>
            THEN MinusRelative(today, int(years_ago_match), 0)
       ELSE IF Contains(query_lower, <<"l","a","s","t"," ","w","e","e","k">>) THEN PlusDays(today, -7)
       ELSE IF Contains(query_lower, <<"l","a","s","t"," ","m","o","n","t","h">>) THEN MinusRelative(today, 0, 1)
       ELSE IF Contains(query_lower, <<"l","a","s","t"," ","y","e","a","r">>) THEN MinusRelative(today, 1, 0)
       ELSE IF day_index # 0 THEN LastWeekday(today, day_index - 1)
       ELSE NoMatch

\* the end of the function with no except clause around parser.parse
HandleAbsoluteDates_NoExcept(target, today, fz, padYear) ==
    IF target.kind = "raise"
    THEN [kind |-> "raise", key |-> <<>>, fuzzy |-> NotCalled]
    ELSE IF target.kind = "ok"
    THEN [kind |-> "ok", key |-> strftime(target.date, padYear), fuzzy |-> NotCalled]
    ELSE IF fz.kind = "ok"
    THEN [kind |-> "ok", key |-> strftime(fz.date, padYear), fuzzy |-> fz]
    ELSE [kind |-> "raise", key |-> <<>>, fuzzy |-> fz]

\* the end of the function for a target of the relative rules: its
\* strftime, the exception propagated, or on NoMatch the try of
\* parser.parse (which does fz) and the default to today; padYear is
\* whether the C library pads years to 4 digits
HandleAbsoluteDates(target, today, fz, padYear) ==
    IF target.kind = "raise"
    THEN [kind |-> "raise", key |-> <<>>, fuzzy |-> NotCalled]
    ELSE IF target.kind = "ok"
    THEN [kind |-> "ok", key |-> strftime(target.date, padYear), fuzzy |-> NotCalled]
    ELSE IF fz.kind = "ok"
    THEN [kind |-> "ok", key |-> strftime(fz.date, padYear), fuzzy |-> fz]
    ELSE [kind |-> "ok", key |-> strftime(today, padYear), fuzzy |-> fz]

\* parse_natural_language_date(q) at clock date today
parse_natural_language_date(q, today, fz, padYear) ==
    HandleAbsoluteDates(HandleRelativeDates(strip(lower(q)), today), today, fz, padYear)

----------------------------------------------------------------------------
(* SceneService (scene_service.py): the scene index                        *)

\* self.scenes_dir
scenes_dir == <<"s","c","e","n","e","s">>

\* os.path.join(scenes_dir, filename)
PathOf(filename) == scenes_dir \o <<"/">> \o filename

\* os.path.basename of a path PathOf made
basename(path) == SubSeq(path, Len(scenes_dir) + 2, Len(path))

\* get_daily_scenes with a filter that looks for the prefix anywhere
get_daily_scenes_Anywhere(d, files, today) ==
    LET key == IF d.some THEN d.str ELSE strftime(today, TRUE)
        StartsWith(f) == Contains(f, <<"s","c","e","n","e","_">> \o key)
        kept == SelectSeq(files, StartsWith)
    IN [i \in 1..Len(kept) |-> PathOf(kept[i])]

\* get_daily_scenes(date) over the directory listing files, at clock date
\* today: the paths of the filenames that start with scene_<date>, in the
\* order of the listing
get_daily_scenes(d, files, today) ==
    LET key == IF d.some THEN d.str ELSE strftime(today, TRUE)
        StartsWith(f) == startswith(f, <<"s","c","e","n","e","_">> \o key)
        kept == SelectSeq(files, StartsWith)
    IN [i \in 1..Len(kept) |-> PathOf(kept[i])]

----------------------------------------------------------------------------
(* strip_markdown (scene_service.py): re.sub, pattern by pattern           *)

\* the character ` (a string of the module cannot hold it)
Backtick == "backtick"

\* ^ with re.MULTILINE: position i starts a line
LineStart(s, i) == i = 1 \/ s[i - 1] = "\n"

\* $ with re.MULTILINE: a line (or the string) ends before position i
LineEnd(s, i) == i = Len(s) + 1 \/ s[i] = "\n"

\* the end of the longest run of characters other than c that starts at i
RECURSIVE RunEndNot(_, _, _)
RunEndNot(s, i, c) ==
    IF i <= Len(s) /\ s[i] # c THEN RunEndNot(s, i + 1, c) ELSE i - 1

\* the positions of the newlines of s[i..e]
NewlinesIn(s, i, e) == { p \in i..e : s[p] = "\n" }

Last(P) == CHOOSE p \in P : \A q \in P : q <= p

\* ^#{1,6}\s+
HeaderEnd(s, i) ==
    LET h == RunEnd(s, i, {"#"})
        w == RunEnd(s, h + 1, Whitespace)
    IN IF LineStart(s, i) /\ h >= i /\ h - i + 1 <= 6 /\ w >= h + 1 THEN w ELSE 0

\* the first position from j on where the closing delimiter d stands, with
\* no newline before it unless dotall; 0 when there is none
RECURSIVE FindClose(_, _, _, _)
FindClose(s, j, d, dotall) ==
    IF j > Len(s) THEN 0
    ELSE IF OccursAt(s, d, j) THEN j
    ELSE IF ~dotall /\ s[j] = "\n" THEN 0
    ELSE FindClose(s, j + 1, d, dotall)

\* d(.*?)d
SpanEnd(s, i, d, dotall) ==
    IF OccursAt(s, d, i)
    THEN LET j == FindClose(s, i + Len(d), d, dotall)
         IN IF j = 0 THEN 0 ELSE j + Len(d) - 1
    ELSE 0

BoldStarEnd(s, i) == SpanEnd(s, i, <<"*", "*">>, FALSE)
BoldUnderEnd(s, i) == SpanEnd(s, i, <<"_", "_">>, FALSE)
ItalicStarEnd(s, i) == SpanEnd(s, i, <<"*">>, FALSE)
ItalicUnderEnd(s, i) == SpanEnd(s, i, <<"_">>, FALSE)
CodeBlockEnd(s, i) == SpanEnd(s, i, <<Backtick, Backtick, Backtick>>, TRUE)
InlineCodeEnd(s, i) == SpanEnd(s, i, <<Backtick>>, FALSE)

\* \[([^\]]+)\]\([^)]+\)
LinkEnd(s, i) ==
    LET j == RunEndNot(s, i + 1, "]")
        k == RunEndNot(s, j + 3, ")")
    IN IF /\ s[i] = "["
          /\ j >= i + 1
          /\ j + 2 <= Len(s)
          /\ s[j + 1] = "]"
          /\ s[j + 2] = "("
          /\ k >= j + 3
          /\ k + 1 <= Len(s)
       THEN k + 1 ELSE 0

\* ^---$ and ^\*\*\*$
RuleEnd(s, i, d) ==
    IF LineStart(s, i) /\ OccursAt(s, d, i) /\ LineEnd(s, i + 3) THEN i + 2 ELSE 0

DashRuleEnd(s, i) == RuleEnd(s, i, <<"-", "-", "-">>)
StarRuleEnd(s, i) == RuleEnd(s, i, <<"*", "*", "*">>)

\* ^>\s+
QuoteEnd(s, i) ==
    LET w == RunEnd(s, i + 1, Whitespace)
    IN IF LineStart(s, i) /\ s[i] = ">" /\ w >= i + 1 THEN w ELSE 0

\* ^[\s]*[-*+]\s+
BulletEnd(s, i) ==
    LET m == RunEnd(s, i, Whitespace) + 1
        w == RunEnd(s, m + 1, Whitespace)
    IN IF LineStart(s, i) /\ m <= Len(s) /\ s[m] \in {"-", "*", "+"} /\ w >= m + 1
       THEN w ELSE 0

\* ^[\s]*\d+\.\s+
NumberEnd(s, i) ==
    LET m == RunEnd(s, i, Whitespace) + 1
        n == RunEnd(s, m, DigitSet)
        w == RunEnd(s, n + 2, Whitespace)
    IN IF LineStart(s, i) /\ n >= m /\ n + 1 <= Len(s) /\ s[n + 1] = "." /\ w >= n + 2
       THEN w ELSE 0

\* \n\s*\n\s*\n: from a newline to the last newline of the whitespace
\* around it, when that holds at least 3 newlines
NewlinesEnd(s, i) ==
    LET e == RunEnd(s, i, Whitespace)
    IN IF s[i] = "\n" /\ Cardinality(NewlinesIn(s, i, e)) >= 3
       THEN Last(NewlinesIn(s, i, e)) ELSE 0

\* ^\s+
LeadingEnd(s, i) ==
    IF LineStart(s, i) /\ s[i] \in Whitespace THEN RunEnd(s, i, Whitespace) ELSE 0

\* the end of \s*$ after position m: the longest whitespace that a line end
\* follows (m itself when a line ends right there, 0 when none does)
BlankToLineEnd(s, m) ==
    LET e == RunEnd(s, m + 1, Whitespace)
    IN IF e = Len(s) THEN e
       ELSE IF NewlinesIn(s, m + 1, e) # {} THEN Last(NewlinesIn(s, m + 1, e)) - 1
       ELSE 0

\* \s+$
TrailingEnd(s, i) == IF s[i] \in Whitespace THEN BlankToLineEnd(s, i) ELSE 0

\* ^\s*[-*+]\s*$
EmptyBulletEnd(s, i) ==
    LET m == RunEnd(s, i, Whitespace) + 1
    IN IF LineStart(s, i) /\ m <= Len(s) /\ s[m] \in {"-", "*", "+"}
       THEN BlankToLineEnd(s, m) ELSE 0

\* ^\s*\d+\.\s*$
EmptyNumberEnd(s, i) ==
    LET m == RunEnd(s, i, Whitespace) + 1
        n == RunEnd(s, m, DigitSet)
    IN IF LineStart(s, i) /\ n >= m /\ n + 1 <= Len(s) /\ s[n + 1] = "."
       THEN BlankToLineEnd(s, n + 1) ELSE 0

\* the last position of the match of pattern pat that starts at i, 0 when
\* the pattern does not match there
MatchEnd(pat, s, i) ==
    CASE pat = "header" -> HeaderEnd(s, i)
      [] pat = "bold*" -> BoldStarEnd(s, i)
      [] pat = "bold_" -> BoldUnderEnd(s, i)
      [] pat = "italic*" -> ItalicStarEnd(s, i)
      [] pat = "italic_" -> ItalicUnderEnd(s, i)
      [] pat = "codeblock" -> CodeBlockEnd(s, i)
      [] pat = "code" -> InlineCodeEnd(s, i)
      [] pat = "link" -> LinkEnd(s, i)
      [] pat = "rule-" -> DashRuleEnd(s, i)
      [] pat = "rule*" -> StarRuleEnd(s, i)
      [] pat = "quote" -> QuoteEnd(s, i)
      [] pat = "bullet" -> BulletEnd(s, i)
      [] pat = "number" -> NumberEnd(s, i)
      [] pat = "newlines" -> NewlinesEnd(s, i)
      [] pat = "leading" -> LeadingEnd(s, i)
      [] pat = "trailing" -> TrailingEnd(s, i)
      [] pat = "emptybullet" -> EmptyBulletEnd(s, i)
      [] pat = "emptynumber" -> EmptyNumberEnd(s, i)

\* the replacement with '' in place of the group \1 of a span
Replacement_DropsGroup(pat, s, i, e) ==
    CASE pat = "link" -> SubSeq(s, i + 1, RunEndNot(s, i + 1, "]"))
      [] pat = "newlines" -> <<"\n", "\n">>
      [] OTHER -> <<>>

\* what the match s[i..e] of pattern pat is replaced by
Replacement(pat, s, i, e) ==
    CASE pat \in {"bold*", "bold_"} -> SubSeq(s, i + 2, e - 2)
      [] pat \in {"italic*", "italic_", "code"} -> SubSeq(s, i + 1, e - 1)
      [] pat = "link" -> SubSeq(s, i + 1, RunEndNot(s, i + 1, "]"))
      [] pat = "newlines" -> <<"\n", "\n">>
      [] OTHER -> <<>>

\* re.sub(pattern, repl, s) from position i on: the matches are taken
\* from left to right and do not overlap
RECURSIVE ReSub(_, _, _)
ReSub(pat, s, i) ==
    LET starts == { j \in i..Len(s) : MatchEnd(pat, s, j) >= j }
    IN IF starts = {} THEN SubSeq(s, i, Len(s))
       ELSE LET j == CHOOSE m \in starts : \A n \in starts : m <= n
                e == MatchEnd(pat, s, j)
            IN SubSeq(s, i, j - 1) \o Replacement(pat, s, j, e) \o ReSub(pat, s, e + 1)

\* the substitutions of strip_markdown, in their order
Substitutions ==
    << "header", "bold*", "bold_", "italic*", "italic_", "codeblock", "code",
       "link", "rule-", "rule*", "quote", "bullet", "number", "newlines",
       "leading", "trailing", "emptybullet", "emptynumber" >>

\* the text after the first n substitutions
RECURSIVE Substituted(_, _)
Substituted(t, n) ==
    IF n = 0 THEN t ELSE ReSub(Substitutions[n], Substituted(t, n - 1), 1)

\* strip_markdown that answers the empty string for None
strip_markdown_EmptyForNone(t) ==
    IF ~t.some \/ t.str = <<>> THEN Some(<<>>)
    ELSE Some(strip(Substituted(t.str, Len(Substitutions))))

\* strip_markdown(text), for text an Optional[str]: None and the empty
\* string are returned as they are
strip_markdown(t) ==
    IF ~t.some \/ t.str = <<>> THEN t
    ELSE Some(strip(Substituted(t.str, Len(Substitutions))))

----------------------------------------------------------------------------
(* SceneService.get_daily_recap (scene_service.py)                         *)

\* Python's s[a:b] for 0 <= a <= b
Slice(s, a, b) ==
    SubSeq(s, a + 1, IF b < Len(s) THEN b ELSE Len(s))

\* Python's s[a:]
SliceFrom(s, a) == SubSeq(s, a + 1, Len(s))

\* str.replace(old, "") from position i on: every occurrence of old, from
\* left to right, is removed
RECURSIVE Without(_, _, _)
Without(s, old, i) ==
    IF i > Len(s) THEN <<>>
    ELSE IF OccursAt(s, old, i) THEN Without(s, old, i + Len(old))
    ELSE <<s[i]>> \o Without(s, old, i + 1)

TodayMessage ==
    <<"I"," ","d","o","n","'","t"," ","h","a","v","e"," ","a","n","y"," ","p","h","o","t","o","s"," ","f","r","o","m"," ","t","o","d","a","y"," ","y","e","t","."," ","I","t"," ","l","o","o","k","s"," ","l","i","k","e"," ","y","o","u"," ","h","a","v","e","n","'","t"," ","t","a","k","e","n"," ","a","n","y"," ","p","i","c","t","u","r","e","s"," ","w","i","t","h"," ","y","o","u","r"," ","g","l","a","s","s","e","s"," ","t","o","d","a","y",","," ","o","r"," ","t","h","e","y"," ","h","a","v","e","n","'","t"," ","b","e","e","n"," ","s","a","v","e","d"," ","y","e","t",".">>

TodayMessageNoDate ==
    <<"I"," ","d","o","n","'","t"," ","h","a","v","e"," ","a","n","y"," ","p","h","o","t","o","s"," ","f","r","o","m"," ","t","o","d","a","y"," ","y","e","t","."," ","I","t"," ","l","o","o","k","s"," ","l","i","k","e"," ","y","o","u"," ","h","a","v","e","n","'","t"," ","t","a","k","e","n"," ","a","n","y"," ","p","i","c","t","u","r","e","s"," ","w","i","t","h"," ","y","o","u","r"," ","g","l","a","s","s","e","s"," ","t","o","d","a","y",".">>

OtherDayMessage(readable_date) ==
    <<"I"," ","d","o","n","'","t"," ","h","a","v","e"," ","a","n","y"," ","p","h","o","t","o","s"," ","f","r","o","m"," ">> \o readable_date \o
    <<"."," ","I","t"," ","s","e","e","m","s"," ","l","i","k","e"," ","y","o","u"," ","d","i","d","n","'","t"," ","t","a","k","e"," ","a","n","y"," ","p","i","c","t","u","r","e","s"," ","w","i","t","h"," ","y","o","u","r"," ","g","l","a","s","s","e","s"," ","o","n"," ","t","h","a","t"," ","d","a","y",","," ","o","r"," ","t","h","e","y"," ","w","e","r","e","n","'","t"," ","s","a","v","e","d",".">>

LoadErrorMessage ==
    <<"I"," ","f","o","u","n","d"," ","s","o","m","e"," ","p","h","o","t","o","s"," ","f","r","o","m"," ","t","h","a","t"," ","d","a","y",","," ","b","u","t"," ","I","'","m"," ","h","a","v","i","n","g"," ","t","r","o","u","b","l","e"," ","l","o","a","d","i","n","g"," ","t","h","e","m"," ","r","i","g","h","t"," ","n","o","w","."," ","T","h","i","s"," ","m","i","g","h","t"," ","b","e"," ","a"," ","t","e","m","p","o","r","a","r","y"," ","i","s","s","u","e"," ","w","i","t","h"," ","t","h","e"," ","f","i","l","e","s"," ","o","r"," ","s","t","o","r","a","g","e","."," ","Y","o","u"," ","c","o","u","l","d"," ","t","r","y"," ","a","g","a","i","n"," ","i","n"," ","a"," ","m","o","m","e","n","t",","," ","o","r"," ","c","h","e","c","k"," ","i","f"," ","t","h","e"," ","p","h","o","t","o","s"," ","a","r","e"," ","s","t","i","l","l"," ","a","v","a","i","l","a","b","l","e",".">>

RecapErrorMessage ==
    <<"I","'","m"," ","h","a","v","i","n","g"," ","t","r","o","u","b","l","e"," ","c","r","e","a","t","i","n","g"," ","y","o","u","r"," ","d","a","i","l","y"," ","r","e","c","a","p"," ","r","i","g","h","t"," ","n","o","w","."," ","T","h","i","s"," ","m","i","g","h","t"," ","b","e"," ","a"," ","t","e","m","p","o","r","a","r","y"," ","i","s","s","u","e"," ","w","i","t","h"," ","t","h","e"," ","p","h","o","t","o"," ","p","r","o","c","e","s","s","i","n","g"," ","o","r"," ","s","t","o","r","a","g","e","."," ","Y","o","u"," ","c","o","u","l","d"," ","t","r","y"," ","a","g","a","i","n"," ","i","n"," ","a"," ","m","o","m","e","n","t",".">>

\* natural_response with the today message for every date
NoDataMessage_AlwaysToday(d, today) ==
    IF d.some /\ d.str # <<>> THEN TodayMessage ELSE TodayMessageNoDate

\* natural_response of the branch for no scenes, at clock date today
NoDataMessage(d, today) ==
    IF d.some /\ d.str # <<>>
    THEN LET year == Slice(d.str, 0, 4)
             month == Slice(d.str, 4, 6)
             day == Slice(d.str, 6, 8)
             readable_date == year \o <<"-">> \o month \o <<"-">> \o day
         IN IF d.str = strftime(today, TRUE) THEN TodayMessage
            ELSE OtherDayMessage(readable_date)
    ELSE TodayMessageNoDate

\* the entry of timestamps for the scene at position index of scenes
TimestampOf(scene_path, index) ==
    LET filename == basename(scene_path)
        timestamp_str == Without(Without(filename, <<"s","c","e","n","e","_">>, 1), <<".","j","p","g">>, 1)
        date_part == Slice(timestamp_str, 0, 8)
        time_part == SliceFrom(timestamp_str, 9)
        year == Slice(date_part, 0, 4)
        month == Slice(date_part, 4, 6)
        day == Slice(date_part, 6, 8)
        hour == Slice(time_part, 0, 2)
        minute == Slice(time_part, 2, 4)
        second == Slice(time_part, 4, 6)
    IN [index |-> index,
        time |-> hour \o <<":">> \o minute \o <<":">> \o second,
        date |-> year \o <<"-">> \o month \o <<"-">> \o day,
        raw |-> timestamp_str]

\* f"Photo {ts['index']}: {ts['time']}"
TimestampLine(ts) == <<"P","h","o","t","o"," ">> \o Pad(ts.index, 1) \o <<":"," ">> \o ts.time

\* what generate_content can do: raise, or return a response whose text is
\* None or a string
ResponseTexts ==
    { <<"#"," ","D","a","y","\n","*","*","t","e","a","*","*"," ","a","t"," ","*","n","o","o","n","*">>,
      <<"L","e","f","t",".","\n","\n","\n","-"," ","l","u","n","c","h">>,
      <<>> }

Responses ==
    { [kind |-> "raise", text |-> None], [kind |-> "ok", text |-> None] }
        \cup { [kind |-> "ok", text |-> Some(t)] : t \in ResponseTexts }

\* generate_content was not called
NoResponse == [kind |-> "notcalled", text |-> None]
NotSent == [called |-> FALSE, images |-> <<>>, count |-> 0, timestamp_info |-> <<>>]

\* the loop over the scenes with a failing Image.open taken as a load
LoadedIndexes_IgnoresFailure(found, failing) == [k \in 1..Len(found) |-> k]

\* the loop over the scenes left at the first Image.open that fails
LoadedIndexes_StopsAtFailure(found, failing) ==
    LET Reached(k) == \A j \in 1..k : found[j] \notin failing
    IN SelectSeq([k \in 1..Len(found) |-> k], Reached)

\* the loop over the scenes: the positions of found whose image loads (a
\* failing Image.open is caught and the scene skipped)
LoadedIndexes(found, failing) ==
    LET Loads(k) == found[k] \notin failing
    IN SelectSeq([k \in 1..Len(found) |-> k], Loads)

\* the call of the generator with no preview of the text printed
GenerateRaises_NoPreview(reply) == reply.kind = "raise"

\* the call of the generator ends in the except clause: generate_content
\* raises, or the text of the response is None and response.text[:100]
\* raises TypeError
GenerateRaises(reply) == reply.kind = "raise" \/ ~reply.text.some

\* get_daily_recap(d) over the directory listing files at clock date today,
\* when Image.open fails on the paths of failing and generate_content
\* does reply: ret is the dict returned, sent is what generate_content
\* was called with (the images and the parts of the prompt that vary)
get_daily_recap(d, files, today, failing, reply) ==
    LET found == get_daily_scenes(d, files, today)
        indexes == LoadedIndexes(found, failing)
        scene_images == [n \in 1..Len(indexes) |-> found[indexes[n]]]
        timestamps == [n \in 1..Len(indexes) |-> TimestampOf(found[indexes[n]], indexes[n])]
        call == [called |-> TRUE,
                 images |-> scene_images,
                 count |-> Len(scene_images),
                 timestamp_info |-> [n \in 1..Len(timestamps) |-> TimestampLine(timestamps[n])]]
    IN IF found = <<>>
       THEN [ret |-> [status |-> "success",
                      description |-> NoDataMessage(d, today),
                      source |-> "no_data",
                      scenes_used |-> <<>>,
                      scene_count |-> 0],
             sent |-> NotSent]
       ELSE IF scene_images = <<>>
       THEN [ret |-> [status |-> "success",
                      description |-> LoadErrorMessage,
                      source |-> "load_error",
                      scenes_used |-> <<>>,
                      scene_count |-> 0],
             sent |-> NotSent]
       ELSE IF GenerateRaises(reply)
       THEN [ret |-> [status |-> "error", message |-> RecapErrorMessage],
             sent |-> call]
       ELSE [ret |-> [status |-> "success",
                      description |-> strip_markdown(reply.text).str,
                      source |-> "daily_recap",
                      scenes_used |-> found,
                      scene_count |-> Len(scene_images)],
             sent |-> call]

----------------------------------------------------------------------------
(* Inputs of the resolver                                                  *)

\* the longest query, in phrases of CorePhrases
MaxPhrases == 2

\* the reference dates are FirstDay .. FirstDay + DaySpan and SpecialDays
DaySpan == 6

\* Monday 2025-06-16; the week holds Friday 2025-06-20
FirstDay == [y |-> 2025, m |-> 6, d |-> 16]

\* month ends whose month-earlier or year-earlier day does not exist, and
\* the ends of a year
SpecialDays ==
    { [y |-> 2025, m |-> 3, d |-> 31], [y |-> 2024, m |-> 3, d |-> 31],
      [y |-> 2024, m |-> 2, d |-> 29], [y |-> 2025, m |-> 1, d |-> 1],
      [y |-> 2025, m |-> 12, d |-> 31] }

RefDates ==
    { fromordinal(toordinal(FirstDay) + k) : k \in 0..DaySpan } \cup SpecialDays

\* one phrase for each rule of the resolver, and one that matches none
CorePhrases ==
    { <<"T","o","d","a","y">>, <<"y","e","s","t","e","r","d","a","y">>, <<"t","o","m","o","r","r","o","w">>, <<"2"," ","d","a","y","s"," ","a","g","o">>, <<"2"," ","w","e","e","k","s"," ","a","g","o">>,
      <<"1"," ","m","o","n","t","h"," ","a","g","o">>, <<"1","5","0","0"," ","y","e","a","r","s"," ","a","g","o">>, <<"l","a","s","t"," ","w","e","e","k">>, <<"l","a","s","t"," ","m","o","n","t","h">>,
      <<"l","a","s","t"," ","y","e","a","r">>, <<"l","a","s","t"," ","F","r","i","d","a","y">>, <<"J","u","n","e"," ","1","5","t","h">>, <<"w","h","a","t"," ","h","a","p","p","e","n","e","d">> }

\* the phrases of a query, joined by single spaces
RECURSIVE Join(_)
Join(ps) ==
    IF ps = <<>> THEN <<>>
    ELSE IF Len(ps) = 1 THEN ps[1]
    ELSE ps[1] \o <<" ">> \o Join(Tail(ps))

\* queries of one phrase: the other spellings of each rule, the counts
\* that leave the calendar, and near misses of the patterns
ExtraQueries ==
    { <<"R","e","c","a","p"," ","m","y"," ","d","a","y"," ","s","o"," ","f","a","r">>, <<"t","h","i","s"," ","d","a","y">>, <<"C","U","R","R","E","N","T"," ","D","A","Y">>, <<"y","e","s","t","e","r","d","a","y","s">>,
      <<"1"," ","d","a","y"," ","a","g","o">>, <<"0"," ","d","a","y","s"," ","a","g","o">>, <<"9","9","9","9","9","9"," ","d","a","y","s"," ","a","g","o">>, <<"x","1","2"," ","d","a","y","s"," ","a","g","o">>,
      <<"1","4"," "," ","w","e","e","k","s","\t","a","g","o">>, <<"1"," ","w","e","e","k"," ","a","g","o">>, <<"2","0","0","0","0","0"," ","w","e","e","k","s"," ","a","g","o">>,
      <<"3"," ","m","o","n","t","h","s"," ","a","g","o">>, <<"1","3"," ","m","o","n","t","h","s"," ","a","g","o">>, <<"3","0","0","0","0"," ","m","o","n","t","h","s"," ","a","g","o">>,
      <<"1"," ","y","e","a","r"," ","a","g","o">>, <<"1","0","2","6"," ","y","e","a","r","s"," ","a","g","o">>, <<"3","0","0","0"," ","y","e","a","r","s"," ","a","g","o">>,
      <<"W","h","a","t"," ","h","a","p","p","e","n","e","d"," ","l","a","s","t"," ","M","o","n","d","a","y","?">>, <<"l","a","s","t"," ","t","u","e","s","d","a","y">>, <<"l","a","s","t"," ","w","e","d","n","e","s","d","a","y">>,
      <<"l","a","s","t"," ","t","h","u","r","s","d","a","y">>, <<"l","a","s","t"," ","s","a","t","u","r","d","a","y">>, <<"l","a","s","t"," ","s","u","n","d","a","y">>,
      <<"l","a","s","t"," ","s","u","n","d","a","y"," ","o","r"," ","l","a","s","t"," ","m","o","n","d","a","y">>,
      <<"t","w","o"," ","w","e","e","k","s"," ","a","g","o">>, <<"2","w","e","e","k","s"," ","a","g","o">>, <<"2"," ","w","e","e","k","s">>, <<" "," ">> }

Queries ==
    { Join(ps) : ps \in UNION { [1..n -> CorePhrases] : n \in 0..MaxPhrases } }
        \cup ExtraQueries

NoResult == [kind |-> "none", key |-> <<>>]
NoRecap == [status |-> "none"]

InitResolve ==
    /\ query \in Queries
    /\ now \in RefDates
    /\ pc = "idle"
    /\ result = NoResult
    /\ fuzzy = NotCalled
    /\ listing = <<>>
    /\ date = None
    /\ op = "none"
    /\ scenes = <<>>
    /\ recap = NoRecap
    /\ unreadable = {}
    /\ response = NoResponse
    /\ sent = NotSent
    /\ NoRun
    /\ NoFlow
    /\ NoSaves
    /\ clock = 0
    /\ parts = <<>>
    /\ md = None
    /\ clean = None

\* one call of parse_natural_language_date(query)
Resolve ==
    /\ pc = "idle"
    /\ \E target \in {HandleRelativeDates(strip(lower(query)), now)},
          fz \in FuzzyOutcomes, padYear \in BOOLEAN :
             LET r == HandleAbsoluteDates(target, now, fz, padYear)
             IN /\ result' = [kind |-> r.kind, key |-> r.key]
                /\ fuzzy' = r.fuzzy
    /\ pc' = "done"
    /\ UNCHANGED <<query, now, listing, date, op, scenes, recap, unreadable, response, sent,
                 parts, md, clean,
                 runVars, flowVars, saveVars, clock>>

NextResolve == Resolve

SpecResolve == InitResolve /\ [][NextResolve]_vars

----------------------------------------------------------------------------
(* Inputs of the scene index                                               *)

\* the most files the scenes directory holds
MaxFiles == 2

\* the files the directory can hold: two scenes of 2025-06-20 out of time
\* order, two more with the time of one of them and with no time, a scene
\* of another day, and a file that is no scene
Stored ==
    { <<"s","c","e","n","e","_","2","0","2","5","0","6","2","0","_","1","2","0","0","0","0",".","j","p","g">>, <<"s","c","e","n","e","_","2","0","2","5","0","6","2","0","_","0","9","0","0","0","0",".","j","p","g">>,
      <<"s","c","e","n","e","_","2","0","2","5","0","6","2","0","_","0","9","0","0","0","0","_","1",".","j","p","g">>, <<"s","c","e","n","e","_","2","0","2","5","0","6","2","0",".","j","p","g">>,
      <<"s","c","e","n","e","_","2","0","2","5","0","6","1","9","_","2","3","5","9","5","9",".","j","p","g">>, <<"m","y","s","c","e","n","e","_","2","0","2","5","0","6","2","0","_","1","0","0","0","0","0",".","j","p","g">> }

\* the listings: the files of a directory, in any order
Listings ==
    { l \in UNION { [1..n -> Stored] : n \in 0..MaxFiles } :
          \A i, j \in 1..Len(l) : i # j => l[i] # l[j] }

\* the date arguments: none, date keys with and without scenes, the empty
\* string, and a key strftime made of a year below 1000
DateArgs ==
    { None, Some(<<"2","0","2","5","0","6","2","0">>), Some(<<"2","0","2","5","0","6","1","9">>), Some(<<"2","0","2","5","0","1","0","1">>),
      Some(<<>>), Some(<<"5","2","5","0","6","2","0">>) }

\* the clock of the scene index
ClockDates == { [y |-> 2025, m |-> 6, d |-> 20], [y |-> 2025, m |-> 6, d |-> 21] }

InitScenes ==
    /\ listing \in Listings
    /\ date \in DateArgs
    /\ now \in ClockDates
    /\ pc = "idle"
    /\ op = "none"
    /\ scenes = <<>>
    /\ recap = NoRecap
    /\ query = <<>>
    /\ result = NoResult
    /\ fuzzy = NotCalled
    /\ unreadable = {}
    /\ response = NoResponse
    /\ sent = NotSent
    /\ NoRun
    /\ NoFlow
    /\ NoSaves
    /\ clock = 0
    /\ parts = <<>>
    /\ md = None
    /\ clean = None

\* one call of get_daily_scenes(date)
GetDailyScenes ==
    /\ pc = "idle"
    /\ scenes' = get_daily_scenes(date, listing, now)
    /\ op' = "get_daily_scenes"
    /\ pc' = "done"
    /\ UNCHANGED <<query, now, result, fuzzy, listing, date, recap, unreadable, response, sent,
                 parts, md, clean,
                 runVars, flowVars, saveVars, clock>>


\* one call of get_daily_recap(date): Image.open fails on the paths of U,
\* generate_content does r when it is called
GetDailyRecap ==
    /\ pc = "idle"
    /\ \E found \in {get_daily_scenes(date, listing, now)} :
          \E U \in SUBSET {found[k] : k \in 1..Len(found)}, r \in Responses :
             LET out == get_daily_recap(date, listing, now, U, r)
             IN /\ recap' = out.ret
                /\ sent' = out.sent
                /\ unreadable' = U
                /\ response' = IF out.sent.called THEN r ELSE NoResponse
    /\ op' = "get_daily_recap"
    /\ pc' = "done"
    /\ UNCHANGED <<query, now, result, fuzzy, listing, date, scenes, parts, md, clean,
                 runVars, flowVars, saveVars, clock>>

NextScenes == GetDailyScenes \/ GetDailyRecap

SpecScenes == InitScenes /\ [][NextScenes]_vars

----------------------------------------------------------------------------
(* The resolver's contract: an ordered list of rules, the first whose      *)
(* predicate matches wins                                                  *)

\* the lower-cased query the rules are matched against
QueryLower == strip(lower(query))

\* the count N of `N <unit>s ago' in s
CountOf(s, unit) == int(AgoMatch(s, unit))

\* the number (Monday 0) of the first weekday name W with `last W' in s
TargetWeekday(s) == LastWeekdayIn(s) - 1

\* the predicate of rule r on the lower-cased query s; parsed is what the
\* fuzzy parser makes of the query
RuleMatches(r, s, parsed) ==
    CASE r = 1 -> ContainsAny(s, TodayPhrases)
      [] r = 2 -> ContainsAny(s, YesterdayPhrases)
      [] r = 3 -> ContainsAny(s, TomorrowPhrases)
      [] r = 4 -> AgoMatch(s, <<"d","a","y">>) # <<>>
      [] r = 5 -> AgoMatch(s, <<"w","e","e","k">>) # <<>>
      [] r = 6 -> AgoMatch(s, <<"m","o","n","t","h">>) # <<>>
      [] r = 7 -> AgoMatch(s, <<"y","e","a","r">>) # <<>>
      [] r = 8 -> Contains(s, <<"l","a","s","t"," ","w","e","e","k">>)
      [] r = 9 -> Contains(s, <<"l","a","s","t"," ","m","o","n","t","h">>)
      [] r = 10 -> Contains(s, <<"l","a","s","t"," ","y","e","a","r">>)
      [] r = 11 -> LastWeekdayIn(s) # 0
      [] r = 12 -> parsed.kind = "ok"
      [] r = 13 -> TRUE

\* the date rule r gives (or the exception its arithmetic raises)
RuleOutcome(r, s, today, parsed) ==
    CASE r = 1 -> Value(today)
      [] r = 2 -> PlusDays(today, -1)
      [] r = 3 -> PlusDays(today, 1)
      [] r = 4 -> PlusDays(today, 0 - CountOf(s, <<"d","a","y">>))
      [] r = 5 -> PlusDays(today, 0 - 7 * CountOf(s, <<"w","e","e","k">>))
      [] r = 6 -> MinusRelative(today, 0, CountOf(s, <<"m","o","n","t","h">>))
      [] r = 7 -> MinusRelative(today, CountOf(s, <<"y","e","a","r">>), 0)
      [] r = 8 -> PlusDays(today, -7)
      [] r = 9 -> MinusRelative(today, 0, 1)
      [] r = 10 -> MinusRelative(today, 1, 0)
      [] r = 11 -> LET since == (weekday(today) - TargetWeekday(s)) % 7
                   IN PlusDays(today, 0 - (IF since = 0 THEN 7 ELSE since))
      [] r = 12 -> parsed
      [] r = 13 -> Value(today)

\* the lowest-numbered rule whose predicate matches
FirstRule(s, parsed) ==
    CHOOSE r \in 1..13 :
        /\ RuleMatches(r, s, parsed)
        /\ \A e \in 1..(r - 1) : ~RuleMatches(e, s, parsed)

\* the rule that resolved the query of a finished call
ResolvedBy == FirstRule(QueryLower, fuzzy)

\* the keys that denote date d: its strftime, with either padding
KeysOf(d) == { strftime(d, TRUE), strftime(d, FALSE) }

\* the date an 8-character key denotes
KeyDate(key) ==
    [y |-> int(SubSeq(key, 1, 4)), m |-> int(SubSeq(key, 5, 6)), d |-> int(SubSeq(key, 7, 8))]

IsValidDate(d) ==
    /\ d.y \in 1..9999
    /\ d.m \in 1..12
    /\ d.d \in 1..DaysInMonth(d.y, d.m)

\* a string of exactly 8 digits that denotes a calendar date
IsDateKey(key) ==
    /\ Len(key) = 8
    /\ \A i \in 1..8 : key[i] \in DigitSet
    /\ IsValidDate(KeyDate(key))

\* the call returned the key of date d
ReturnedDate(d) == result.kind = "ok" /\ result.key \in KeysOf(d)

\* C1: resolve returns a date key for every query and reference time and
\* never raises, also for `N days/weeks/months/years ago' with an N that
\* moves the date before the earliest representable date.
C1_NeverRaises == pc = "done" => result.kind = "ok"

\* C2: the result of resolve is the result of the lowest-numbered rule
\* whose predicate matches the lower-cased query; a query with both
\* `yesterday' and `last Friday' (and no `today' phrase) resolves to now
\* minus 1 day.
C2_FirstMatchingRuleWins ==
    pc = "done" =>
        LET expected == RuleOutcome(ResolvedBy, QueryLower, now, fuzzy)
        IN /\ IF expected.kind = "raise" THEN result.kind = "raise"
              ELSE ReturnedDate(expected.date)
           /\ (/\ Contains(QueryLower, <<"y","e","s","t","e","r","d","a","y">>)
               /\ Contains(QueryLower, <<"l","a","s","t"," ","f","r","i","d","a","y">>)
               /\ ~ContainsAny(QueryLower, TodayPhrases))
                  => ReturnedDate(fromordinal(toordinal(now) - 1))

C2_Witness ==
    /\ pc = "done"
    /\ Contains(QueryLower, <<"y","e","s","t","e","r","d","a","y">>)
    /\ Contains(QueryLower, <<"l","a","s","t"," ","f","r","i","d","a","y">>)
    /\ ~ContainsAny(QueryLower, TodayPhrases)
    /\ ReturnedDate(fromordinal(toordinal(now) - 1))

\* C3: a query whose lower-cased text contains `today', `my day so far',
\* `this day' or `current day' resolves to the date of now, whatever other
\* date expression it contains.
C3_TodayWins ==
    (pc = "done" /\ ContainsAny(QueryLower, TodayPhrases)) => ReturnedDate(now)

C3_Witness ==
    /\ pc = "done"
    /\ Contains(QueryLower, <<"t","o","d","a","y">>)
    /\ \E r \in 2..11 : RuleMatches(r, QueryLower, fuzzy)
    /\ ReturnedDate(now)

\* C4: a query resolved by the `last W' rule yields a date whose weekday
\* is W and that lies 1 to 7 days before the reference date (so 7 days
\* before it, never the date itself, when the reference date is a W).
C4_LastWeekday ==
    (pc = "done" /\ ResolvedBy = 11) =>
        /\ result.kind = "ok"
        /\ IsDateKey(result.key)
        /\ weekday(KeyDate(result.key)) = TargetWeekday(QueryLower)
        /\ toordinal(now) - toordinal(KeyDate(result.key)) \in 1..7

C4_Witness ==
    /\ pc = "done"
    /\ ResolvedBy = 11
    /\ weekday(now) = TargetWeekday(QueryLower)
    /\ ReturnedDate(fromordinal(toordinal(now) - 7))

\* C5: a query matching `N weeks ago' (and no earlier rule) resolves to
\* exactly the date 7*N days before the reference date, for every N.
C5_WeeksAgo ==
    (pc = "done" /\ ResolvedBy = 5) =>
        /\ result.kind = "ok"
        /\ IsDateKey(result.key)
        /\ toordinal(KeyDate(result.key))
               = toordinal(now) - 7 * CountOf(QueryLower, <<"w","e","e","k">>)

\* C6: a query matching `N months ago' (or `last month', N = 1) resolves
\* to the date N calendar months earlier with the same day of the month,
\* clamped to the last day of a shorter target month; always a valid date.
C6_MonthsAgo ==
    (pc = "done" /\ ResolvedBy \in {6, 9}) =>
        LET N == IF ResolvedBy = 6 THEN CountOf(QueryLower, <<"m","o","n","t","h">>) ELSE 1
            t == KeyDate(result.key)
        IN /\ result.kind = "ok"
           /\ IsDateKey(result.key)
           /\ (12 * now.y + now.m) - (12 * t.y + t.m) = N
           /\ t.d = IF now.d <= DaysInMonth(t.y, t.m) THEN now.d
                    ELSE DaysInMonth(t.y, t.m)

\* C7: every value resolve returns is a string of exactly 8 digits
\* YYYYMMDD that denotes a valid calendar date, also for years below 1000.
C7_EightDigitKey == (pc = "done" /\ result.kind = "ok") => IsDateKey(result.key)

----------------------------------------------------------------------------
(* Properties of the scene index and of the recap for an empty bucket      *)

\* the date key get_daily_scenes filters by: the argument, or today's key
BucketKey == IF date.some THEN date.str ELSE strftime(now, TRUE)

\* the positions of the listing whose filename starts with scene_<key>
InBucket(key) ==
    { k \in 1..Len(listing) : OccursAt(listing[k], <<"s","c","e","n","e","_">> \o key, 1) }

\* the captured time HHMMSS of a filename scene_YYYYMMDD_HHMMSS..., as a
\* number, or -1 when the filename has no such time
CapturedTime(filename) ==
    IF /\ Len(filename) >= 21
       /\ filename[15] = "_"
       /\ \A k \in 16..21 : filename[k] \in DigitSet
    THEN int(SubSeq(filename, 16, 21))
    ELSE -1

\* the position in the listing of the file of a returned path
ListingIndex(path) ==
    CHOOSE k \in 1..Len(listing) : PathOf(listing[k]) = path

ScenesReturned == pc = "done" /\ op = "get_daily_scenes"

RecapReturned == pc = "done" /\ op = "get_daily_recap"

\* C8: the list get_daily_scenes returns is sorted ascending by the captured
\* time of the filenames, the files without a captured time come after all
\* the others, and files that tie keep the order of the listing
C8_SortedByCapturedTime ==
    (ScenesReturned /\ (date.some => IsDateKey(date.str))) =>
        \A i, j \in 1..Len(scenes) :
            i < j =>
                LET ti == CapturedTime(basename(scenes[i]))
                    tj == CapturedTime(basename(scenes[j]))
                IN /\ (ti >= 0 /\ tj >= 0) => ti <= tj
                   /\ ti < 0 => tj < 0
                   /\ ti = tj => ListingIndex(scenes[i]) < ListingIndex(scenes[j])

\* C9: get_daily_scenes returns exactly the listed filenames that start
\* with scene_<key>, each joined to the scenes directory and each once, so
\* the empty list when no filename has the prefix
C9_ExactlyThePrefixed ==
    ScenesReturned =>
        /\ Len(scenes) = Cardinality(InBucket(BucketKey))
        /\ \A k \in InBucket(BucketKey) :
              \E i \in 1..Len(scenes) : scenes[i] = <<"s","c","e","n","e","s","/">> \o listing[k]
        /\ \A i \in 1..Len(scenes) :
              \E k \in InBucket(BucketKey) : scenes[i] = <<"s","c","e","n","e","s","/">> \o listing[k]

\* a call that returned some files of the listing and left another out
C9_Witness ==
    /\ ScenesReturned
    /\ date.some
    /\ Len(scenes) >= 1
    /\ Len(scenes) < Len(listing)

\* the key YYYYMMDD written as YYYY-MM-DD
Dashed(key) ==
    SubSeq(key, 1, 4) \o <<"-">> \o SubSeq(key, 5, 6) \o <<"-">> \o SubSeq(key, 7, 8)

\* the recap was asked for a date key and the bucket of the key is empty
EmptyBucket ==
    /\ RecapReturned
    /\ date.some
    /\ IsDateKey(date.str)
    /\ InBucket(date.str) = {}

\* C10: the recap of a date key with an empty bucket has status success,
\* source no_data, no scenes used and scene count 0; its message is the
\* today message exactly when the key is today's key, and otherwise it is
\* the message that contains the key's date written as YYYY-MM-DD
C10_EmptyBucketRecap ==
    EmptyBucket =>
        /\ DOMAIN recap = {"status", "description", "source", "scenes_used", "scene_count"}
        /\ recap.status = "success"
        /\ recap.source = "no_data"
        /\ recap.scenes_used = <<>>
        /\ recap.scene_count = 0
        /\ (recap.description = TodayMessage) <=> (date.str = Pad(now.y, 4) \o Pad(now.m, 2) \o Pad(now.d, 2))
        /\ recap.description # TodayMessage =>
              /\ Contains(recap.description, Dashed(date.str))
              /\ ~Contains(recap.description, <<"t","o","d","a","y">>)
        /\ sent = NotSent

\* a recap for the empty bucket of a day that is not today
C10_Witness ==
    /\ EmptyBucket
    /\ date.str # strftime(now, TRUE)
    /\ Len(listing) > 0
    /\ Contains(recap.description, <<"2","0","2","5","-","0","1","-","0","1">>)

----------------------------------------------------------------------------
(* Properties of the recap of a bucket with records                        *)

\* the paths get_daily_scenes finds for the call's date in the listing
Found == get_daily_scenes(date, listing, now)

\* the paths of the bucket whose image loaded
LoadedPaths == { Found[k] : k \in { j \in 1..Len(Found) : Found[j] \notin unreadable } }

\* C11: the recap of a bucket with at least one record, every one of which
\* fails to load, has status success, source load_error, no scenes used and
\* scene count 0 (a returned record, so nothing was raised), and the
\* generator is not called, for any number of records
C11_AllFailToLoad ==
    (RecapReturned /\ Len(Found) >= 1 /\ LoadedPaths = {}) =>
        /\ DOMAIN recap = {"status", "description", "source", "scenes_used", "scene_count"}
        /\ recap.status = "success"
        /\ recap.source = "load_error"
        /\ recap.scenes_used = <<>>
        /\ recap.scene_count = 0
        /\ recap.description = LoadErrorMessage
        /\ sent = NotSent

\* a recap of a bucket of two or more records that all failed to load
C11_Witness ==
    /\ RecapReturned
    /\ Len(Found) >= 2
    /\ LoadedPaths = {}
    /\ recap.source = "load_error"

\* the generator was called and returned a text that is not empty
GeneratorSucceeded ==
    /\ sent.called
    /\ response.kind = "ok"
    /\ response.text.some
    /\ response.text.str # <<>>

\* the recap was asked for a date key, or for today with no date
ForDateKey == date.some => IsDateKey(date.str)

\* the fields of a recap result
RecapFields == {"status", "description", "source", "scenes_used", "scene_count"}

\* the elements of a sequence
Range(s) == { s[k] : k \in 1..Len(s) }

\* C12: the recap of a bucket of k records that all load, with a generator
\* that succeeds, has scene count k and scenes used exactly those k paths,
\* in an order in which the captured times are ascending
C12_AllLoadedInTimeOrder ==
    (/\ RecapReturned /\ ForDateKey
     /\ Len(Found) >= 1 /\ unreadable = {} /\ GeneratorSucceeded) =>
        /\ DOMAIN recap = RecapFields
        /\ recap.scene_count = Len(Found)
        /\ Len(recap.scenes_used) = Len(Found)
        /\ Range(recap.scenes_used) = Range(Found)
        /\ \A i, j \in 1..Len(recap.scenes_used) :
              LET ti == CapturedTime(basename(recap.scenes_used[i]))
                  tj == CapturedTime(basename(recap.scenes_used[j]))
              IN (i < j /\ ti >= 0 /\ tj >= 0) => ti <= tj

\* C13: when some but not all records of the bucket fail to load and the
\* generator succeeds, scenes used holds exactly the paths that loaded, and
\* in every recap result the scene count is the length of scenes used
C13_ScenesUsedAreTheLoaded ==
    /\ (/\ RecapReturned /\ ForDateKey /\ GeneratorSucceeded
        /\ LoadedPaths # {} /\ LoadedPaths # Range(Found)) =>
           /\ DOMAIN recap = RecapFields
           /\ Range(recap.scenes_used) = LoadedPaths
           /\ Len(recap.scenes_used) = Cardinality(LoadedPaths)
    /\ (RecapReturned /\ DOMAIN recap = RecapFields) =>
           recap.scene_count = Len(recap.scenes_used)

C15_FiveFields == RecapReturned => RecapFields \subseteq DOMAIN recap

----------------------------------------------------------------------------
(* Inputs of the sanitizer                                                 *)

\* the most pieces of a generated input text
MaxParts == 3

\* a piece of input text: plain text x, a span around x, or a marker x
Piece(kind, x) == [kind |-> kind, x |-> x]

\* the markdown of a piece
Render(p) ==
    CASE p.kind = "bold*" -> <<"*","*">> \o p.x \o <<"*","*">>
      [] p.kind = "bold_" -> <<"_","_">> \o p.x \o <<"_","_">>
      [] p.kind = "italic*" -> <<"*">> \o p.x \o <<"*">>
      [] p.kind = "italic_" -> <<"_">> \o p.x \o <<"_">>
      [] OTHER -> p.x

\* the markdown of a sequence of pieces
RECURSIVE RenderAll(_)
RenderAll(ps) == IF ps = <<>> THEN <<>> ELSE Render(Head(ps)) \o RenderAll(Tail(ps))

Newline == Piece("text", <<"\n">>)

\* the pieces generated inputs are made of
Pieces ==
    { Piece("text", <<"a">>), Piece("text", <<" ">>), Newline,
      Piece("header", <<"#"," ">>), Piece("bullet", <<"-"," ">>), Piece("quote", <<">"," ">>),
      Piece("bullet", <<"*"," ">>), Piece("bullet", <<"+"," ">>),
      Piece("number", <<"1","."," ">>),
      Piece("bold*", <<"b">>), Piece("bold_", <<"c">>),
      Piece("italic*", <<"d">>), Piece("italic_", <<"e">>) }

\* inputs given piece by piece: the example of the test script, repeated
\* markers at the start of a line, and runs of newlines between two lines
Examples ==
    { << Piece("header", <<"#"," ">>), Piece("text", <<"H","e","a","d","e","r">>), Newline,
         Piece("text", <<"T","h","i","s"," ","i","s"," ">>), Piece("bold*", <<"b","o","l","d">>),
         Piece("text", <<" ","t","e","x","t"," ","a","n","d"," ">>), Piece("italic*", <<"i","t","a","l","i","c">>),
         Piece("text", <<" ","t","e","x","t",".">>) >>,
      << Piece("header", <<"#","#","#"," ">>), Piece("bold_", <<"m","o","r","e"," ","b","o","l","d">>),
         Piece("text", <<" ","a","n","d"," ">>), Piece("italic_", <<"m","o","r","e"," ","i","t","a","l","i","c">>) >>,
      << Piece("header", <<"#"," ">>), Piece("header", <<"#"," ">>), Piece("text", <<"T","i","t","l","e">>) >>,
      << Piece("bullet", <<"-"," ">>), Piece("bullet", <<"-"," ">>), Piece("text", <<"i","t","e","m">>) >>,
      << Piece("quote", <<">"," ">>), Piece("quote", <<">"," ">>), Piece("text", <<"q","u","o","t","e">>) >>,
      << Piece("number", <<"1","."," ">>), Piece("number", <<"2","."," ">>), Piece("text", <<"i","t","e","m">>) >>,
      << Piece("text", <<"o","n","e">>), Newline, Newline, Piece("text", <<"t","w","o">>) >>,
      << Piece("text", <<"o","n","e">>), Newline, Newline, Newline, Piece("text", <<"t","w","o">>) >>,
      << Piece("text", <<"o","n","e">>), Newline, Newline, Newline, Newline, Newline,
         Piece("text", <<"t","w","o">>) >> }

\* the input texts, piece by piece
Documents == UNION { [1..n -> Pieces] : n \in 0..MaxParts } \cup Examples

InitSanitize ==
    /\ \/ parts \in Documents /\ md = Some(RenderAll(parts))
       \/ parts = <<>> /\ md = None
    /\ clean = None
    /\ pc = "idle"
    /\ op = "none"
    /\ query = <<>>
    /\ now = FirstDay
    /\ result = NoResult
    /\ fuzzy = NotCalled
    /\ listing = <<>>
    /\ date = None
    /\ scenes = <<>>
    /\ recap = NoRecap
    /\ unreadable = {}
    /\ response = NoResponse
    /\ sent = NotSent
    /\ NoRun
    /\ NoFlow
    /\ NoSaves
    /\ clock = 0

\* one call of strip_markdown(md)
Sanitize ==
    /\ pc = "idle"
    /\ clean' = strip_markdown(md)
    /\ op' = "strip_markdown"
    /\ pc' = "done"
    /\ UNCHANGED <<query, now, result, fuzzy, listing, date, scenes, recap,
                   unreadable, response, sent, parts, md,
                 runVars, flowVars, saveVars, clock>>

NextSanitize == Sanitize

SpecSanitize == InitSanitize /\ [][NextSanitize]_vars

----------------------------------------------------------------------------
(* Properties of the sanitizer                                             *)

SanitizeReturned == pc = "done" /\ op = "strip_markdown"

\* C16: strip_markdown is idempotent: applied to its own result it returns
\* that result, also for repeated markers at the start of a line
C16_Idempotent == SanitizeReturned => strip_markdown(clean) = clean

\* C17: strip_markdown returns its input as it is when the input is None
\* or the empty string: None for None and '' for ''
C17_NullAndEmptyUnchanged ==
    (SanitizeReturned /\ (~md.some \/ md.str = <<>>)) =>
        /\ clean = md
        /\ ~md.some => clean = None
        /\ md.some => clean = Some(<<>>)

\* a call with None that returned None
C17_Witness == SanitizeReturned /\ md = None /\ clean = None

\* the text of a piece without its delimiters or marker
Plain(p) == IF p.kind \in {"header", "bullet", "quote", "number"} THEN <<>> ELSE p.x

RECURSIVE PlainAll(_)
PlainAll(ps) == IF ps = <<>> THEN <<>> ELSE Plain(Head(ps)) \o PlainAll(Tail(ps))

\* the input is made of plain text, of spans around text with no `*', `_'
\* or newline, and of header markers that lead a line
SpansAndHeaders ==
    \A k \in 1..Len(parts) :
        /\ parts[k].kind \in {"text", "header", "bold*", "bold_", "italic*", "italic_"}
        /\ parts[k].kind = "header" =>
              /\ k = 1 \/ parts[k - 1] = Newline
              /\ \E h \in 1..6 : parts[k].x = [n \in 1..(h + 1) |-> IF n <= h THEN "#" ELSE " "]
        /\ parts[k] # Newline =>
              \A n \in 1..Len(parts[k].x) : parts[k].x[n] \notin {"*", "_", "\n"}

\* a text with no line that is empty or that starts or ends with whitespace
Tidy(s) ==
    /\ s # <<>> => (s[1] \notin Whitespace /\ s[Len(s)] \notin Whitespace)
    /\ \A n \in 1..Len(s) :
          s[n] = "\n" => (s[n - 1] \notin Whitespace /\ s[n + 1] \notin Whitespace)

\* C18: in a text of spans **x**, __x__, *x* and _x_ around texts x with no
\* `*', `_' or newline, of leading header markers of 1 to 6 `#', and of
\* surrounding text, strip_markdown replaces each span by its x and removes
\* the header markers, leaves the rest as it is, and leaves no `*' or `_';
\* '# Header\nThis is **bold** text and *italic* text.' becomes
\* 'Header\nThis is bold text and italic text.'
C18_SpansAndHeaders ==
    /\ (SanitizeReturned /\ md.some /\ SpansAndHeaders /\ Tidy(PlainAll(parts))) =>
          /\ clean = Some(PlainAll(parts))
          /\ \A n \in 1..Len(clean.str) : clean.str[n] \notin {"*", "_"}
    /\ (SanitizeReturned /\ md = Some(<<"#"," ","H","e","a","d","e","r","\n","T","h","i","s"," ","i","s"," ","*","*","b","o","l","d","*","*"," ","t","e","x","t"," ","a","n","d"," ","*","i","t","a","l","i","c","*"," ","t","e","x","t",".">>)) =>
          clean = Some(<<"H","e","a","d","e","r","\n","T","h","i","s"," ","i","s"," ","b","o","l","d"," ","t","e","x","t"," ","a","n","d"," ","i","t","a","l","i","c"," ","t","e","x","t",".">>)

\* the call on the example of the test script
C18_Witness ==
    /\ SanitizeReturned
    /\ md = Some(<<"#"," ","H","e","a","d","e","r","\n","T","h","i","s"," ","i","s"," ","*","*","b","o","l","d","*","*"," ","t","e","x","t"," ","a","n","d"," ","*","i","t","a","l","i","c","*"," ","t","e","x","t",".">>)
    /\ SpansAndHeaders
    /\ clean = Some(<<"H","e","a","d","e","r","\n","T","h","i","s"," ","i","s"," ","b","o","l","d"," ","t","e","x","t"," ","a","n","d"," ","i","t","a","l","i","c"," ","t","e","x","t",".">>)

\* the input is two lines of text with count newlines between them
TwoLinesApart(count) ==
    /\ Len(parts) = count + 2
    /\ \A k \in 2..(Len(parts) - 1) : parts[k] = Newline
    /\ \A k \in {1, Len(parts)} :
          /\ parts[k].kind = "text"
          /\ parts[k].x # <<>>
          /\ \A n \in 1..Len(parts[k].x) : parts[k].x[n] \notin Whitespace

\* C19: a run of 3 or more newlines between two lines that are not empty
\* becomes exactly 2 newlines, and a run of exactly 2 newlines stays 2
C19_NewlineRuns ==
    (SanitizeReturned /\ \E count \in 2..Len(parts) : TwoLinesApart(count)) =>
        clean = Some(parts[1].x \o <<"\n","\n">> \o parts[Len(parts)].x)

----------------------------------------------------------------------------
(* The tag of the rule that resolved a query                               *)

\* C20: the result of resolve carries, besides the date, a matchedRule tag
\* that names the rule that fired, and the tag is unresolved exactly for a
\* result of the final fallback, which tells it from a result of rule 1
C20_MatchedRuleTag ==
    (pc = "done" /\ result.kind = "ok") =>
        /\ "matchedRule" \in DOMAIN result
        /\ (result.matchedRule = "unresolved") <=> (ResolvedBy = 13)


\* C21: a query that gives the count as a word, `two weeks ago' (and that
\* matches none of the earlier rules), resolves to the date 14 days before
\* the reference date.
C21_WordCount ==
    (/\ pc = "done"
     /\ Contains(QueryLower, <<"t","w","o"," ","w","e","e","k","s"," ","a","g","o">>)
     /\ ResolvedBy >= 12) =>
        ReturnedDate(fromordinal(toordinal(now) - 14))


\* the paths of the bucket whose image loaded, in the order of the bucket
LoadedInOrder ==
    LET Loads(p) == p \notin unreadable
    IN SelectSeq(Found, Loads)

\* C22: a record that fails to load does not stop the loading of the
\* others: every record of the bucket that loads is passed to the generator,
\* wherever and however many the failing records are, and the scene count
\* of the result is the number of records that loaded
C22_FailuresAreIsolated ==
    RecapReturned =>
        /\ LoadedInOrder # <<>> =>
              /\ sent.called
              /\ sent.images = LoadedInOrder
              /\ sent.count = Len(LoadedInOrder)
        /\ "scene_count" \in DOMAIN recap => recap.scene_count = Len(LoadedInOrder)

\* a recap of two records of which the first failed to load and the second
\* was passed to the generator and counted
C22_Witness ==
    /\ RecapReturned
    /\ Len(Found) = 2
    /\ Found[1] \in unreadable
    /\ Found[2] \notin unreadable
    /\ sent.images = <<Found[2]>>
    /\ recap.status = "success"
    /\ recap.scene_count = 1


\* C23: the prompt numbers the photos 1..k, k being the number of images
\* it states, and the i-th image given to the generator is the one of the
\* line `Photo i', also when records of the bucket failed to load
C23_PhotosNumberedFromOne ==
    (RecapReturned /\ sent.called) =>
        /\ Len(sent.timestamp_info) = sent.count
        /\ Len(sent.images) = sent.count
        /\ \A i \in 1..sent.count :
              /\ startswith(sent.timestamp_info[i], <<"P","h","o","t","o"," ">> \o Pad(i, 1) \o <<":"," ">>)
              /\ sent.timestamp_info[i] = TimestampLine(TimestampOf(sent.images[i], i))


\* C25: when none of the relative rules matches, the call returns the date
\* the fuzzy parser produced if the parser succeeds and today's date if the
\* parser fails; the failure of the parser never leaves the call and never
\* gives a date other than today
C25_ParserFallback ==
    (pc = "done" /\ ResolvedBy >= 12) =>
        /\ fuzzy.kind \in {"ok", "raise"}
        /\ result.kind = "ok"
        /\ fuzzy.kind = "ok" => ReturnedDate(fuzzy.date)
        /\ fuzzy.kind = "raise" => ReturnedDate(now)

\* a call in which no relative rule matched, the parser failed and the key
\* of today was returned
C25_Witness ==
    /\ pc = "done"
    /\ ResolvedBy = 13
    /\ fuzzy.kind = "raise"
    /\ QueryLower = <<"w","h","a","t"," ","h","a","p","p","e","n","e","d">>
    /\ result.key = strftime(now, TRUE)


\* the input is a list marker, a space and an item text of one line
MarkedItem ==
    /\ Len(parts) >= 2
    /\ parts[1].kind \in {"bullet", "number"}
    /\ \A k \in 2..Len(parts) : parts[k] # Newline

\* the item text of a marked item
ItemText == RenderAll(Tail(parts))

\* C26: for every list marker m of `-', `*', `+', `N.' and every item text
\* t of one line, the sanitized m + ' ' + t is the sanitized t, also when
\* t holds an italic span *b* and the marker is `*'
C26_MarkerStripped ==
    (SanitizeReturned /\ md.some /\ MarkedItem) =>
        clean = strip_markdown(Some(ItemText))


\* the text after `Photo N: ' in a line of the prompt
TimeGiven(line) ==
    LET colon == CHOOSE k \in 1..Len(line) :
                     line[k] = ":" /\ \A j \in 1..(k - 1) : line[j] # ":"
    IN SubSeq(line, colon + 2, Len(line))

\* C29: a record whose filename has no time of day HHMMSS that can be
\* parsed is still loaded and counted by the recap, and the prompt gives its
\* time as `unknown', never as a malformed time such as `::'
C29_UnknownTime ==
    RecapReturned =>
        /\ \A p \in LoadedPaths : sent.called /\ p \in Range(sent.images)
        /\ sent.called =>
              \A i \in 1..Len(sent.images) :
                  CapturedTime(basename(sent.images[i])) < 0 =>
                      TimeGiven(sent.timestamp_info[i]) = <<"u","n","k","n","o","w","n">>


----------------------------------------------------------------------------
(* get_daily_recap, one step at a time: the listing of the scenes, each    *)
(* Image.open of the loop, and the call of generate_content                *)

\* where get_daily_recap goes when get_daily_scenes has returned found:
\* it returns the no_data result (`if not scenes') or enters the loop
AfterListing(found) == IF found = <<>> THEN "done" ELSE "loading"

\* the end of the loop with no `if not scene_images'
AfterLoading_NoCheck(found, outcomes) ==
    IF Len(outcomes) < Len(found) THEN "loading" ELSE "generating"

\* where it goes after the load attempts outcomes: on with the loop, to
\* the return of the load_error result (`if not scene_images') when the
\* loop has ended with no image, or else to the generator
AfterLoading(found, outcomes) ==
    IF Len(outcomes) < Len(found) THEN "loading"
    ELSE IF \A k \in 1..Len(outcomes) : ~outcomes[k] THEN "done"
    ELSE "generating"

InitRecapSteps ==
    /\ listing \in Listings
    /\ date \in DateArgs
    /\ now \in ClockDates
    /\ pc = "idle"
    /\ op = "none"
    /\ scenes = <<>>
    /\ recap = NoRecap
    /\ query = <<>>
    /\ result = NoResult
    /\ fuzzy = NotCalled
    /\ unreadable = {}
    /\ response = NoResponse
    /\ sent = NotSent
    /\ parts = <<>>
    /\ md = None
    /\ clean = None
    /\ NoRun
    /\ NoFlow
    /\ NoSaves
    /\ clock = 0

\* scenes = self.get_daily_scenes(date), and the return of the no_data
\* result when there is none
RecapListScenes ==
    /\ pc = "idle"
    /\ \E found \in {get_daily_scenes(date, listing, now)} :
          /\ scenes' = found
          /\ pc' = AfterListing(found)
          /\ recap' = IF AfterListing(found) = "done"
                      THEN get_daily_recap(date, listing, now, {}, NoResponse).ret
                      ELSE recap
    /\ op' = "get_daily_recap"
    /\ UNCHANGED <<query, now, result, fuzzy, listing, date, unreadable, response, sent,
                   parts, md, clean, runVars, flowVars, saveVars, clock>>

\* one pass of the loop: Image.open of the next scene succeeds or fails;
\* after the last pass, the return of the load_error result when no image
\* loaded
RecapLoadScene ==
    /\ pc = "loading"
    /\ Len(loads) < Len(scenes)
    /\ \E ok \in BOOLEAN :
          \E failing \in {IF ok THEN unreadable
                          ELSE unreadable \cup {scenes[Len(loads) + 1]}} :
             /\ loads' = Append(loads, ok)
             /\ unreadable' = failing
             /\ pc' = AfterLoading(scenes, Append(loads, ok))
             /\ recap' = IF AfterLoading(scenes, Append(loads, ok)) = "done"
                         THEN get_daily_recap(date, listing, now, failing, NoResponse).ret
                         ELSE recap
    /\ UNCHANGED <<query, now, result, fuzzy, listing, date, op, scenes, response, sent,
                   parts, md, clean, calls, flowVars, saveVars, clock>>

\* the call of generate_content with the images and the prompt, and the
\* return of the daily_recap result or, from the except clause, of the
\* error result
RecapGenerate ==
    /\ pc = "generating"
    /\ \E r \in Responses :
          LET out == get_daily_recap(date, listing, now, unreadable, r)
          IN /\ sent' = out.sent
             /\ recap' = out.ret
             /\ response' = r
    /\ calls' = calls + 1
    /\ pc' = "done"
    /\ UNCHANGED <<query, now, result, fuzzy, listing, date, op, scenes, unreadable,
                   parts, md, clean, loads, flowVars, saveVars, clock>>

NextRecapSteps == RecapListScenes \/ RecapLoadScene \/ RecapGenerate

SpecRecapSteps == InitRecapSteps /\ [][NextRecapSteps]_vars

\* no record of the bucket loaded
NoneLoaded == \A k \in 1..Len(loads) : ~loads[k]

\* the states of a run of get_daily_recap: the generator is called at most
\* once and only when every load attempt is over, never for an empty
\* bucket or a bucket of which nothing loaded, and a daily_recap result
\* comes from a call that returned a text and describes the sanitized text
GeneratorCalledInOrder ==
    /\ calls <= 1
    /\ calls = 1 => Len(loads) = Len(scenes)
    /\ (scenes = <<>> \/ NoneLoaded) => calls = 0
    /\ (pc = "done" /\ "source" \in DOMAIN recap /\ recap.source = "daily_recap") =>
          /\ calls = 1
          /\ response.kind = "ok"
          /\ response.text.some
          /\ recap.description = strip_markdown(response.text).str

\* C24: in every run of get_daily_recap the generator is called at most
\* once, after all the load attempts, and not at all when the bucket is
\* empty or no record loaded; a result with source daily_recap is returned
\* only after a call that returned a text, and its description is the
\* sanitized text
C24_GeneratorCalledOnce ==
    /\ [] GeneratorCalledInOrder
    /\ [][/\ calls' # calls => (calls' = calls + 1 /\ pc = "generating" /\ loads' = loads)
          /\ calls >= 1 => loads' = loads]_vars

\* a run in which the first record failed to load, the second loaded, and
\* the one call of the generator gave the daily_recap result
C24_Witness ==
    /\ pc = "done"
    /\ loads = <<FALSE, TRUE>>
    /\ calls = 1
    /\ recap.status = "success"
    /\ recap.source = "daily_recap"


----------------------------------------------------------------------------
(* The requests that build a recap (main.py): the get_daily_recap branch   *)
(* of process_query and the /daily_recap endpoint, with a running clock    *)

SecondsPerDay == 24 * 60 * 60

\* the clock runs through the MaxTicks seconds before midnight and the
\* MaxTicks seconds after it
MaxTicks == 2

\* the first second of the clock
Late == SecondsPerDay - MaxTicks

\* the truth value of an Optional[str]: None and '' are false
Truthy(o) == o.some /\ o.str # <<>>

\* process_query calling the resolver only for a missing date (`is None')
ResolverNeeded_OnlyNone(args_date) == ~args_date.some

\* process_query calls the resolver: `if not date_param'
ResolverNeeded(args_date) == ~Truthy(args_date)

\* the day of the requests
FlowDay == [y |-> 2025, m |-> 6, d |-> 20]

\* the queries of the requests: resolved to today, to yesterday, by the
\* fuzzy parser or the default, and one for which the resolver raises
FlowQueries ==
    { <<"W","h","a","t"," ","h","a","p","p","e","n","e","d"," ","t","o","d","a","y","?">>, <<"y","e","s","t","e","r","d","a","y">>, <<"w","h","a","t"," ","h","a","p","p","e","n","e","d">>, <<"3","0","0","0"," ","y","e","a","r","s"," ","a","g","o">> }

\* function_call.args.get("date") and request.date: missing, empty, the
\* key of the day of the requests and the key of the day before
SuppliedDates ==
    { None, Some(<<>>), Some(<<"2","0","2","5","0","6","2","0">>), Some(<<"2","0","2","5","0","6","1","9">>) }

\* the scenes directory of the requests: empty, or one scene of either day
FlowListings ==
    { <<>>, <<<<"s","c","e","n","e","_","2","0","2","5","0","6","2","0","_","1","2","0","0","0","0",".","j","p","g">>>>, <<<<"s","c","e","n","e","_","2","0","2","5","0","6","1","9","_","2","3","5","9","5","9",".","j","p","g">>>> }

InitRequests ==
    /\ query \in FlowQueries
    /\ supplied \in SuppliedDates
    /\ listing \in FlowListings
    /\ now = FlowDay
    /\ clock \in Late..(SecondsPerDay - 1)
    /\ keyedOn = NoDate
    /\ pc = "idle"
    /\ op = "none"
    /\ date = None
    /\ result = NoResult
    /\ fuzzy = NotCalled
    /\ scenes = <<>>
    /\ recap = NoRecap
    /\ unreadable = {}
    /\ response = NoResponse
    /\ sent = NotSent
    /\ parts = <<>>
    /\ md = None
    /\ clean = None
    /\ NoRun
    /\ NoSaves

\* the wall clock advances by one second, into the next day at midnight
Tick ==
    /\ clock >= Late \/ clock < MaxTicks
    /\ IF clock + 1 = SecondsPerDay
       THEN clock' = 0 /\ now' = fromordinal(toordinal(now) + 1)
       ELSE clock' = clock + 1 /\ now' = now
    /\ UNCHANGED <<query, pc, result, fuzzy, listing, date, op, scenes, recap, unreadable,
                   response, sent, parts, md, clean, runVars, flowVars, saveVars>>

\* process_query, get_daily_recap branch: date_param is the date of the
\* function call or, with none, what the resolver makes of request.query
\* (an exception of the resolver ends the request)
ProcessQueryKey ==
    /\ pc = "idle"
    /\ op' = "process_query"
    /\ keyedOn' = now
    /\ IF ResolverNeeded(supplied)
       THEN \E fz \in FuzzyOutcomes, padYear \in BOOLEAN :
               LET r == parse_natural_language_date(query, now, fz, padYear)
               IN /\ result' = [kind |-> r.kind, key |-> r.key]
                  /\ fuzzy' = r.fuzzy
                  /\ date' = IF r.kind = "ok" THEN Some(r.key) ELSE date
                  /\ pc' = IF r.kind = "ok" THEN "keyed" ELSE "raised"
       ELSE /\ date' = supplied
            /\ pc' = "keyed"
            /\ UNCHANGED <<result, fuzzy>>
    /\ UNCHANGED <<query, now, listing, scenes, recap, unreadable, response, sent,
                   parts, md, clean, runVars, supplied, saveVars, clock>>

\* the /daily_recap endpoint: date_param is request.date or, with none,
\* the key of today
DailyRecapKey ==
    /\ pc = "idle"
    /\ op' = "daily_recap"
    /\ keyedOn' = now
    /\ date' = IF Truthy(supplied) THEN supplied ELSE Some(strftime(now, TRUE))
    /\ pc' = "keyed"
    /\ UNCHANGED <<query, now, result, fuzzy, listing, scenes, recap, unreadable, response,
                   sent, parts, md, clean, runVars, supplied, saveVars, clock>>

\* result = scene_service.get_daily_recap(date_param), of either request
CallDailyRecap ==
    /\ pc = "keyed"
    /\ \E found \in {get_daily_scenes(date, listing, now)} :
          \E U \in SUBSET {found[k] : k \in 1..Len(found)}, r \in Responses :
             LET out == get_daily_recap(date, listing, now, U, r)
             IN /\ recap' = out.ret
                /\ sent' = out.sent
                /\ unreadable' = U
                /\ response' = IF out.sent.called THEN r ELSE NoResponse
    /\ pc' = "done"
    /\ UNCHANGED <<query, now, result, fuzzy, listing, date, op, scenes, parts, md, clean,
                   runVars, flowVars, saveVars, clock>>

NextRequests == ProcessQueryKey \/ DailyRecapKey \/ CallDailyRecap \/ Tick

SpecRequests == InitRequests /\ [][NextRequests]_vars

\* C27: when the resolver maps the query to today's key, or the endpoint
\* defaults the key to today, and the bucket is empty, the message of the
\* recap is the `today' one, also when the clock passes midnight between
\* the computing of the key and the recap's comparison with today's date
C27_TodayAcrossMidnight ==
    (/\ pc = "done"
     /\ ~Truthy(supplied)
     /\ date = Some(strftime(keyedOn, TRUE))
     /\ get_daily_scenes(date, listing, now) = <<>>) =>
        /\ recap.status = "success"
        /\ recap.source = "no_data"
        /\ recap.description \in {TodayMessage, TodayMessageNoDate}


\* the request has computed its date key, or has ended in the resolver
Keyed == op = "process_query" /\ pc \in {"keyed", "raised", "done"}

\* C30: in the query flow a date key that the function call supplies, and
\* that is not empty, is passed unchanged to the recap and the resolver is
\* not called; the resolver is called, on the original query text, exactly
\* when no key or an empty key is supplied, and its result is the key
\* passed to the recap
C30_SuppliedKeyWins ==
    Keyed =>
        /\ Truthy(supplied) =>
              /\ pc # "raised"
              /\ date = supplied
              /\ result = NoResult
              /\ fuzzy = NotCalled
        /\ ~Truthy(supplied) =>
              /\ result # NoResult
              /\ \E fz \in FuzzyOutcomes, padYear \in BOOLEAN :
                    LET r == parse_natural_language_date(query, keyedOn, fz, padYear)
                    IN result = [kind |-> r.kind, key |-> r.key]
              /\ pc = "raised" <=> result.kind = "raise"
              /\ pc # "raised" => date = Some(result.key)

\* a finished query whose function call supplied the key of the day before
\* while the query said today: the recap is for the supplied key
C30_Witness ==
    /\ op = "process_query"
    /\ pc = "done"
    /\ supplied = Some(<<"2","0","2","5","0","6","1","9">>)
    /\ query = <<"W","h","a","t"," ","h","a","p","p","e","n","e","d"," ","t","o","d","a","y","?">>
    /\ date = supplied
    /\ result = NoResult
    /\ recap.status = "success"


----------------------------------------------------------------------------
(* SceneService: save_screenshot and save_screenshot_from_image            *)

\* the most saves that succeed in a run
MaxSaves == 3

\* datetime.now().strftime("%Y%m%d_%H%M%S")
Timestamp(today, seconds) ==
    strftime(today, TRUE) \o <<"_">> \o Pad(seconds \div 3600, 2)
        \o Pad((seconds \div 60) % 60, 2) \o Pad(seconds % 60, 2)

\* f"scene_{timestamp}.jpg"
SceneFile(timestamp) == <<"s","c","e","n","e","_">> \o timestamp \o <<".","j","p","g">>

\* image.save(filepath): the file is created, or written over
Saved(files, filename, image) ==
    [f \in DOMAIN files \cup {filename} |-> IF f = filename THEN image ELSE files[f]]

\* the dicts a save returns
SaveSuccess(timestamp) ==
    [status |-> "success", filepath |-> PathOf(SceneFile(timestamp)), timestamp |-> timestamp]
SaveError == [status |-> "error", message |-> <<"I"," ","c","o","u","l","d","n","'","t"," ","s","a","v","e"," ","t","h","a","t"," ","s","c","r","e","e","n","s","h","o","t",".">>]
NoImageError == [status |-> "error", message |-> <<"I"," ","d","o","n","'","t"," ","h","a","v","e"," ","a"," ","c","u","r","r","e","n","t"," ","i","m","a","g","e"," ","t","o"," ","s","a","v","e",".">>]

InitSaves ==
    /\ disk = NoFiles
    /\ saves = 0
    /\ now = FlowDay
    /\ clock \in Late..(SecondsPerDay - 1)
    /\ pc = "idle"
    /\ op = "none"
    /\ query = <<>>
    /\ result = NoResult
    /\ fuzzy = NotCalled
    /\ listing = <<>>
    /\ date = None
    /\ scenes = <<>>
    /\ recap = NoRecap
    /\ unreadable = {}
    /\ response = NoResponse
    /\ sent = NotSent
    /\ parts = <<>>
    /\ md = None
    /\ clean = None
    /\ NoRun
    /\ NoFlow

\* save_screenshot_from_image(image): the image, the saves + 1-th, is
\* saved under the name of the current second, or image.save raises
SaveScreenshotFromImage ==
    /\ saves < MaxSaves
    /\ \E raises \in BOOLEAN :
          LET timestamp == Timestamp(now, clock)
          IN IF raises
             THEN /\ result' = SaveError
                  /\ UNCHANGED <<disk, saves>>
             ELSE /\ disk' = Saved(disk, SceneFile(timestamp), saves + 1)
                  /\ saves' = saves + 1
                  /\ result' = SaveSuccess(timestamp)
    /\ op' = "save_screenshot_from_image"
    /\ UNCHANGED <<query, now, pc, fuzzy, listing, date, scenes, recap, unreadable, response,
                   sent, parts, md, clean, runVars, flowVars, clock>>

\* save_screenshot(): the same with the current camera frame, when there
\* is one
SaveScreenshot ==
    /\ saves < MaxSaves
    /\ \E frame \in BOOLEAN, raises \in BOOLEAN :
          LET timestamp == Timestamp(now, clock)
          IN IF ~frame
             THEN /\ result' = NoImageError
                  /\ UNCHANGED <<disk, saves>>
             ELSE IF raises
             THEN /\ result' = SaveError
                  /\ UNCHANGED <<disk, saves>>
             ELSE /\ disk' = Saved(disk, SceneFile(timestamp), saves + 1)
                  /\ saves' = saves + 1
                  /\ result' = SaveSuccess(timestamp)
    /\ op' = "save_screenshot"
    /\ UNCHANGED <<query, now, pc, fuzzy, listing, date, scenes, recap, unreadable, response,
                   sent, parts, md, clean, runVars, flowVars, clock>>

NextSaves == SaveScreenshotFromImage \/ SaveScreenshot \/ Tick

SpecSaves == InitSaves /\ [][NextSaves]_vars

\* C28: every save that succeeds stores its image under a filename no
\* earlier save used: after any sequence of saves the number of scene files
\* is the number of saves that succeeded and every saved image is still
\* stored, also when two saves happen within the same second
C28_SavesNeverOverwrite ==
    /\ Cardinality(DOMAIN disk) = saves
    /\ \A image \in 1..saves : \E f \in DOMAIN disk : disk[f] = image

====
